---- MODULE Spec2Model ----
(***************************************************************************)
(* Webbly CMS: the cache layer (webbly/cache.py) and what rests on it.     *)
(*                                                                         *)
(* Python strings are TLA+ strings (sequences of characters): '+' and      *)
(* join are \o, len is Len, a slice is SubSeq, 'p in s' is Contains(p, s). *)
(* Python values are records tagged with their type, so that str() is a    *)
(* conversion that can lose information (str(1) = str('1') = '1').         *)
(*                                                                         *)
(* Time is counted in ticks, TicksPerSec ticks to the second, so that      *)
(* time.time() is a fraction of a second and int() truncates.              *)
(***************************************************************************)
EXTENDS Integers, Sequences, FiniteSets, TLC

VARIABLES
    cache_type,   \* app.config['CACHE_TYPE'] as init_app read it: the backend of self.cache
    store,        \* the backend's contents: backend key -> [expires, value]
    now,          \* time.time(), in ticks
    ticks,        \* number of time steps taken (bounds the run)
    last,         \* the last operation and its outcome
    lastSet,      \* per cache key: the most recent set and whether delete/clear came after it
    counter,      \* counter['value'] of the impure test_function
    addr,         \* id() of each live Search instance in the running process
    keyA,         \* the most recent key derivation
    keyB,         \* the key derivation before keyA
    reachable,    \* whether the backend's storage (Redis server, cache directory) can be reached
    db,           \* the content store: the rows of Post and of Page
    reindex,      \* the call of Search.reindex in progress, or the last one: phase, trigger, outcome
    pure,         \* the last call of a pure text function of Search: its arguments and its result
    threads       \* the threads that are inside a call: thread -> its position and local variables

vars == <<cache_type, store, now, ticks, last, lastSet, counter, addr, keyA, keyB,
          reachable, db, reindex, pure, threads>>

\* What the operations of the cache layer on its own leave alone.
searchVars == <<reachable, db, reindex, pure, threads>>

---------------------------------------------------------------------------
(* Bounds *)

TicksPerSec == 2
MaxTicks == 2
MaxCounter == 2

---------------------------------------------------------------------------
(* Python values *)

S(s) == [t |-> "str", s |-> s]
I(i) == [t |-> "int", i |-> i]
B(b) == [t |-> "bool", b |-> b]
O(o) == [t |-> "obj", o |-> o]
None == [t |-> "NoneType"]

\* The Search instances a process can hold: the module-level one and one built by a caller.
Instances == {"search", "Search(app)"}

\* Addresses an instance can be allocated at (hex digits of id()).
Addresses == {"7f3a10c0", "7f3a58e0"}

\* object.__repr__: Search defines neither __str__ nor __repr__.
object_repr(a) == "<webbly.search.Search object at 0x" \o a \o ">"

\* str(value), as _make_cache_key applies it to arguments and f-strings to kwargs.
str(v) ==
    CASE v.t = "str" -> v.s
      [] v.t = "int" -> ToString(v.i)
      [] v.t = "bool" -> (IF v.b THEN "True" ELSE "False")
      [] v.t = "NoneType" -> "None"
      [] v.t = "obj" -> object_repr(addr[v.o])

---------------------------------------------------------------------------
(* Cache key derivation: Cache._make_cache_key *)

\* Keyword-argument and query-parameter names, in the order sorted() puts them.
NameOrder == <<"include_drafts", "limit", "q">>

\* sorted(d.items()): the names of d in ascending order.
sorted(d) == SelectSeq(NameOrder, LAMBDA n : n \in DOMAIN d)

\* The empty dict.
EmptyDict == [n \in {} |-> None]

\* '_'.join(parts)
RECURSIVE join(_, _)
join(sep, parts) ==
    IF parts = <<>> THEN ""
    ELSE IF Len(parts) = 1 THEN parts[1]
    ELSE parts[1] \o sep \o join(sep, Tail(parts))

\* flask.request outside a request context is an unbound proxy, which is falsy;
\* inside one it is the request, whose args are the query parameters.
NoRequest == [active |-> FALSE, args |-> EmptyDict]
Request(args) == [active |-> TRUE, args |-> args]

\* The list key_parts that _make_cache_key builds.
key_parts(f, key_prefix, args, kwargs, request) ==
    <<key_prefix, f>>
    \o [i \in 1..Len(args) |-> str(args[i])]
    \o [i \in 1..Len(sorted(kwargs)) |->
            sorted(kwargs)[i] \o ":" \o str(kwargs[sorted(kwargs)[i]])]
    \o (IF request.active
        THEN [i \in 1..Len(sorted(request.args)) |->
                sorted(request.args)[i] \o ":" \o str(request.args[sorted(request.args)[i]])]
        ELSE <<>>)

\* The joined string, before hashing.
joined_key(f, key_prefix, args, kwargs, request) ==
    join("_", key_parts(f, key_prefix, args, kwargs, request))

\* hashlib.md5 on the strings this model hashes: joined key strings, the keys
\* derived from them (hashed again for the file name), and the explicit keys.
\* The digests are MD5's own.
MD5Table ==
    { <<"memo_f_1", "0665f76e903ffcdcea6c73ea1bd3126c">>,
      <<"memo_f_1_q:x", "42ab0cb94ec50a6f24bfcd3c5b0dc8b5">>,
      <<"memo_f_1_q:x_q:x", "b418a79409b7e191bb57b5e9a8f7a308">>,
      <<"memo_f_a", "094385442ab14540fc44835d4deb1712">>,
      <<"memo_f_a_b", "d627301b7d91dde019c8fc53e0d46a34">>,
      <<"memo_f_a_b_q:x", "497115acbe77b35fa4c9c186207526b0">>,
      <<"memo_f_a_b_q:x_q:x", "14eea28f942c92e288e71b2d3acf82be">>,
      <<"memo_f_a_q:x", "4e74e26db51eae80cb57d13346af7899">>,
      <<"memo_f_a_q:x_q:x", "7f7eeccae6adf11094eb730ced6ad61d">>,
      <<"memo_nothing", "443564bf9469cf46c85f3903a95d2f08">>,
      <<"memo_search_<webbly.search.Search object at 0x7f3a10c0>_", "9a90ba4ff425a994c2c3a44fd00cb7f0">>,
      <<"memo_search_<webbly.search.Search object at 0x7f3a10c0>_!!!", "f1be1fecaa559e50cc531c87076e74a7">>,
      <<"memo_search_<webbly.search.Search object at 0x7f3a10c0>_!!!_include_drafts:True", "43f78712c3643ab6aea1675b8bf8aa6b">>,
      <<"memo_search_<webbly.search.Search object at 0x7f3a10c0>_!!!_include_drafts:True_include_drafts:True", "ce5ca84e7e0ff67fc898572f0620f974">>,
      <<"memo_search_<webbly.search.Search object at 0x7f3a10c0>__include_drafts:True", "b5729425dc6957a2096fa9d135cdd350">>,
      <<"memo_search_<webbly.search.Search object at 0x7f3a10c0>__include_drafts:True_include_drafts:True", "6ecdab9128220d5f2419a5573be0bff4">>,
      <<"memo_search_<webbly.search.Search object at 0x7f3a10c0>_a_b", "56a11c68d7faf5ea273f744316ca2a63">>,
      <<"memo_search_<webbly.search.Search object at 0x7f3a10c0>_a_b_include_drafts:True", "9439bb36fba11f5695b5a0032f161428">>,
      <<"memo_search_<webbly.search.Search object at 0x7f3a10c0>_a_b_include_drafts:True_include_drafts:True", "c852d581f899780788c7272de5957a14">>,
      <<"memo_search_<webbly.search.Search object at 0x7f3a10c0>_about", "dfe98a1ca09ff1634b1627025c7de4c5">>,
      <<"memo_search_<webbly.search.Search object at 0x7f3a10c0>_about_include_drafts:True", "cfbde6a0d8662c2f9842b7617e49fbaf">>,
      <<"memo_search_<webbly.search.Search object at 0x7f3a10c0>_about_include_drafts:True_q:x", "fde6265e3d01c66bb5108263d364cd3d">>,
      <<"memo_search_<webbly.search.Search object at 0x7f3a10c0>_about_q:x", "82518f424bf5e9f181fa7ce49125e76a">>,
      <<"memo_search_<webbly.search.Search object at 0x7f3a10c0>_contact", "002fed1b303a01193753ce1be5a4da10">>,
      <<"memo_search_<webbly.search.Search object at 0x7f3a10c0>_draft", "b34606f11524e47140fba820d3ce4588">>,
      <<"memo_search_<webbly.search.Search object at 0x7f3a10c0>_draft_include_drafts:True", "15959c884285a62553be71e10906a9e8">>,
      <<"memo_search_<webbly.search.Search object at 0x7f3a10c0>_draft_include_drafts:True_include_drafts:True", "eb97f8ce80e1234b2970f9f70f0fe740">>,
      <<"memo_search_<webbly.search.Search object at 0x7f3a10c0>_hello world", "1fdcae3a6cf3086f5d33c3f548fe9bf9">>,
      <<"memo_search_<webbly.search.Search object at 0x7f3a10c0>_hello world_include_drafts:True", "f27ae522c53a86a9a53c789b012b7143">>,
      <<"memo_search_<webbly.search.Search object at 0x7f3a10c0>_hello world_include_drafts:True_include_drafts:True", "760154d3326ca083b36d5355600bcd11">>,
      <<"memo_search_<webbly.search.Search object at 0x7f3a10c0>_news", "9f034ae6f3e3e86ced9c077a094412a6">>,
      <<"memo_search_<webbly.search.Search object at 0x7f3a10c0>_news_include_drafts:True", "47528fd3a9901377dc5bd6cc4afa43de">>,
      <<"memo_search_<webbly.search.Search object at 0x7f3a10c0>_news_include_drafts:True_q:x", "ab698c18b04797d35a1807caff207c9f">>,
      <<"memo_search_<webbly.search.Search object at 0x7f3a10c0>_news_q:x", "c7beabb97b66f55a359566c843435e2c">>,
      <<"memo_search_<webbly.search.Search object at 0x7f3a10c0>_test", "39b6779468c621746b3c82cf8e8f033d">>,
      <<"memo_search_<webbly.search.Search object at 0x7f3a10c0>_test_include_drafts:True", "05108908cfdb33a2a1c67787a289c945">>,
      <<"memo_search_<webbly.search.Search object at 0x7f3a10c0>_test_include_drafts:True_include_drafts:True", "5ecb637893ebb38ea22e085f11e2091d">>,
      <<"memo_search_<webbly.search.Search object at 0x7f3a10c0>_welcome", "73c33454a1069ccb459da356600b70ed">>,
      <<"memo_search_<webbly.search.Search object at 0x7f3a58e0>_about", "64acbc17769b3b79cdc2b71dffc036cf">>,
      <<"memo_search_<webbly.search.Search object at 0x7f3a58e0>_about_include_drafts:True", "7461c33d4afcd60fdc422bc21afa9593">>,
      <<"memo_search_<webbly.search.Search object at 0x7f3a58e0>_about_include_drafts:True_q:x", "7421eb5c9ad54a849e391881157ddefc">>,
      <<"memo_search_<webbly.search.Search object at 0x7f3a58e0>_about_q:x", "34afc159f585f0d147d2f92e952b0506">>,
      <<"memo_search_<webbly.search.Search object at 0x7f3a58e0>_news", "0a3d58fb909c14caaf3ebfe63b2aceb3">>,
      <<"memo_search_<webbly.search.Search object at 0x7f3a58e0>_news_include_drafts:True", "425611d8ff4141c38797a4bfba84deec">>,
      <<"memo_search_<webbly.search.Search object at 0x7f3a58e0>_news_include_drafts:True_q:x", "9636232d82792d95b656f953709b0ec6">>,
      <<"memo_search_<webbly.search.Search object at 0x7f3a58e0>_news_q:x", "f93d3c7c866415a5f8971612fb914702">>,
      <<"view_f_1", "0f51151c8a03e1bd805ab7a5cc51ae15">>,
      <<"view_f_1_q:x", "1c1d893809830c8b4c14f18d7e703f40">>,
      <<"view_f_1_q:x_q:x", "22dda1830faafee9d7b8db9a523bb04a">>,
      <<"view_f_a", "bf857393c6b5f783349b6aa09a00dc06">>,
      <<"view_f_a_b", "1d2372a0630f43a076840226ef62f62c">>,
      <<"view_f_a_b_q:x", "1a31c8cb9557a6d6b6ac1881eed98f1e">>,
      <<"view_f_a_b_q:x_q:x", "34984b476f0d9b4034af2d33516a6945">>,
      <<"view_f_a_q:x", "4e96c36e7a743ccbe0f5ca5d04d5e343">>,
      <<"view_f_a_q:x_q:x", "9c6f3876e272a0e3784e4a25f9ccc8a3">>,
      <<"view_test_function", "fa71cca859d76c3205faa6c593d132f7">>,
      <<"002fed1b303a01193753ce1be5a4da10", "655e5e28ca927398fd507806433f96fd">>,
      <<"05108908cfdb33a2a1c67787a289c945", "8b971fd17837aa1b3af4ef04f282c1e6">>,
      <<"0665f76e903ffcdcea6c73ea1bd3126c", "b7d8b1943af5bc845fe054db23574ee9">>,
      <<"15959c884285a62553be71e10906a9e8", "1a8dde15098ab4b54e1b99e5900c1f60">>,
      <<"1fdcae3a6cf3086f5d33c3f548fe9bf9", "0bc3dd1bc9f3dfc606e650e72a201afb">>,
      <<"39b6779468c621746b3c82cf8e8f033d", "155f67db8f1e9045bffae8c8482ed375">>,
      <<"42ab0cb94ec50a6f24bfcd3c5b0dc8b5", "80ffaa0a4bddb6d2fdbaac83bd187f19">>,
      <<"43f78712c3643ab6aea1675b8bf8aa6b", "04c1b12a23fc3d34661d9851cb00bde9">>,
      <<"443564bf9469cf46c85f3903a95d2f08", "c9912356f4de3a8bcf3d3432ae785a77">>,
      <<"56a11c68d7faf5ea273f744316ca2a63", "3645fd635dbcfebe0509b871cb38324c">>,
      <<"5ecb637893ebb38ea22e085f11e2091d", "202d3f4a9fa2299f7ecc8a3854be2c5a">>,
      <<"6ecdab9128220d5f2419a5573be0bff4", "e3a87c1572da0d0ac4d2474de8b84203">>,
      <<"73c33454a1069ccb459da356600b70ed", "78b38b450e80b7c76292dffd0b8eb6c2">>,
      <<"760154d3326ca083b36d5355600bcd11", "d31b4d88c8380e1369bfbfc551609f70">>,
      <<"9439bb36fba11f5695b5a0032f161428", "d331f19197b80caef538755f08e7597a">>,
      <<"9a90ba4ff425a994c2c3a44fd00cb7f0", "e6c79d487ff4f5e113fa34a4b5d26f46">>,
      <<"9f034ae6f3e3e86ced9c077a094412a6", "f02234c9c2b45c33ab3a0aa346c67411">>,
      <<"b34606f11524e47140fba820d3ce4588", "0bd727ee542f2e00d83ae847458fbdaa">>,
      <<"b5729425dc6957a2096fa9d135cdd350", "ef7b75aa665c7f897a512002b5ca2839">>,
      <<"c852d581f899780788c7272de5957a14", "996e509c1571885e7cd82d8410ba2049">>,
      <<"ce5ca84e7e0ff67fc898572f0620f974", "a76995a5a8652accb64114ae760d13b6">>,
      <<"dfe98a1ca09ff1634b1627025c7de4c5", "d2d7b9fb3861b47d88a73888ff379202">>,
      <<"eb97f8ce80e1234b2970f9f70f0fe740", "469d0ae9d9d52454fb3bc68acac33af1">>,
      <<"f1be1fecaa559e50cc531c87076e74a7", "7a3e382702f933b8739912d788b6a3a3">>,
      <<"f27ae522c53a86a9a53c789b012b7143", "8b83d1df72801265e6201904bf10365b">>,
      <<"fa71cca859d76c3205faa6c593d132f7", "c81ee4039023d44d6bfd3174a99ae438">>,
      <<"user:1:profile", "24355403b0a6c74ba9af3b3d80ed49bd">>,
      <<"user:2:profile", "288f37c65c67bcd30e1bf78bc91a04ee">> }

\* The table as a function from the string to its digest.
MD5 == [s \in {row[1] : row \in MD5Table} |-> (CHOOSE row \in MD5Table : row[1] = s)[2]]

\* hashlib.md5(s.encode()).hexdigest()
md5_hexdigest(s) == MD5[s]

_make_cache_key(f, key_prefix, args, kwargs, request) ==
    md5_hexdigest(joined_key(f, key_prefix, args, kwargs, request))

---------------------------------------------------------------------------
(* The backends init_app builds: werkzeug.contrib.cache.FileSystemCache    *)
(* and RedisCache, by their documented behaviour.                          *)

CACHE_DEFAULT_TIMEOUT == 300
CACHE_THRESHOLD == 500
CACHE_KEY_PREFIX == "webbly_"

\* init_app: anything but 'redis' (so also the default and 'simple') is the filesystem backend.
CacheTypes == {"filesystem", "redis"}

\* The default_timeout the backend was built with: init_app passes
\* CACHE_DEFAULT_TIMEOUT to FileSystemCache only; RedisCache keeps its own default, 300.
default_timeout == IF cache_type = "redis" THEN 300 ELSE CACHE_DEFAULT_TIMEOUT

\* Whether pattern occurs in s: Python's 'pattern in s'.
Contains(pattern, s) ==
    \E i \in 1..(Len(s) - Len(pattern) + 1) : SubSeq(s, i, i + Len(pattern) - 1) = pattern

\* FileSystemCache._get_filename: the file of a key is named by the key's MD5.
_get_filename(key) == md5_hexdigest(key)

\* Where the backend keeps a key: a file name, or the prefixed Redis key.
backend_key(key) ==
    IF cache_type = "redis" THEN CACHE_KEY_PREFIX \o key ELSE _get_filename(key)

\* A timeout that takes None to mean "never expires".
expires_for_none_is_never(timeout) ==
    LET t == IF timeout = None THEN 0 ELSE timeout.i
    IN  IF cache_type = "redis"
        THEN (IF t = 0 THEN -1 ELSE now + t * TicksPerSec)
        ELSE (IF t = 0 THEN 0 ELSE (now + t * TicksPerSec) \div TicksPerSec)

\* _normalize_timeout, then what set stores as the expiry: None is the default
\* timeout, 0 is "never expires" (stored as 0 in the file, set without a TTL in
\* Redis, here -1); otherwise the file holds int(time() + timeout) in whole
\* seconds and Redis expires the key timeout seconds from now (here in ticks).
expires_for(timeout) ==
    LET t == IF timeout = None THEN default_timeout ELSE timeout.i
    IN  IF cache_type = "redis"
        THEN (IF t = 0 THEN -1 ELSE now + t * TicksPerSec)
        ELSE (IF t = 0 THEN 0 ELSE (now + t * TicksPerSec) \div TicksPerSec)

\* An entry that is served whatever its expiry.
is_live_forever(e) == TRUE

\* Whether an entry is still served at time now: FileSystemCache.get's
\* 'pickle_time == 0 or pickle_time >= time()'; a Redis key lives while its TTL is positive.
is_live(e) ==
    IF cache_type = "redis"
    THEN e.expires = -1 \/ now < e.expires
    ELSE e.expires = 0 \/ e.expires * TicksPerSec >= now

EmptyStore == [k \in {} |-> None]
Put(s, k, e) == [x \in (DOMAIN s) \cup {k} |-> IF x = k THEN e ELSE s[x]]
Remove(s, ks) == [x \in (DOMAIN s) \ ks |-> s[x]]

\* Cache.get -> self.cache.get(key): the value, or None when there is no live entry.
cache_get(s, key) ==
    IF backend_key(key) \in DOMAIN s /\ is_live(s[backend_key(key)])
    THEN s[backend_key(key)].value
    ELSE None

\* The store after a get: an expired entry is removed on the read.
store_after_get(s, key) ==
    IF backend_key(key) \in DOMAIN s /\ ~is_live(s[backend_key(key)])
    THEN Remove(s, {backend_key(key)})
    ELSE s

\* A set that keeps a live entry instead of overwriting it (the backend's add).
cache_set_keeps_old(s, key, value, timeout) ==
    IF backend_key(key) \in DOMAIN s /\ is_live(s[backend_key(key)])
    THEN s
    ELSE Put(s, backend_key(key), [expires |-> expires_for(timeout), value |-> value])

\* Cache.set -> self.cache.set(key, value, timeout): write or overwrite the entry.
cache_set(s, key, value, timeout) ==
    Put(s, backend_key(key), [expires |-> expires_for(timeout), value |-> value])

\* A delete that removes nothing.
cache_delete_nothing(s, key) == s

\* Cache.delete -> self.cache.delete(key)
cache_delete(s, key) == Remove(s, {backend_key(key)})

\* A clear that removes nothing.
cache_clear_nothing(s) == s

\* Cache.clear -> self.cache.clear(): every file of the directory, every key with the prefix.
cache_clear(s) == EmptyStore

\* Cache.invalidate on the filesystem backend: every file of the cache directory
\* whose name contains the pattern is removed (files are named by _get_filename).
invalidate_files(s, pattern) ==
    Remove(s, {filename \in DOMAIN s : Contains(pattern, filename)})

\* Cache.invalidate on Redis reads self.cache.cache._client; self.cache is the
\* RedisCache and has no attribute 'cache', so the call raises before any key is touched.
invalidate_outcome == IF cache_type = "redis" THEN "AttributeError" ELSE "ok"

\* What a backend offers to invalidate: Redis scans key patterns natively (KEYS)
\* and so enumerates its keys; the filesystem backend can only list files named
\* by MD5 digests, from which no key can be read back.
scans_patterns == cache_type = "redis"
enumerates_keys == cache_type = "redis"

\* FileSystemCache.set prunes before it writes, and prunes nothing while the
\* directory holds no more than CACHE_THRESHOLD files: the model stays below it.
below_threshold(s) == Cardinality(DOMAIN s) <= CACHE_THRESHOLD

---------------------------------------------------------------------------
(* Text functions of Search: str methods and the regular expressions used  *)

LowerCase == "abcdefghijklmnopqrstuvwxyz"
UpperCase == "ABCDEFGHIJKLMNOPQRSTUVWXYZ"
Digits == "0123456789"

\* The characters of a string, as a set of one-character strings.
chars(s) == {SubSeq(s, i, i) : i \in 1..Len(s)}

\* \w of re (ASCII letters, digits and the underscore) and \s.
WordChars == chars(LowerCase) \cup chars(UpperCase) \cup chars(Digits) \cup {"_"}
SpaceChars == {" ", "\n", "\t"}

\* str.lower(), on ASCII.
Lowered ==
    [c \in chars(UpperCase) |->
        LET i == CHOOSE j \in 1..Len(UpperCase) : SubSeq(UpperCase, j, j) = c
        IN  SubSeq(LowerCase, i, i)]
lower_char(c) == IF c \in DOMAIN Lowered THEN Lowered[c] ELSE c
\* The concatenation of a sequence of strings (by halves, so that the depth
\* of the evaluation grows with the logarithm of the length only).
RECURSIVE concat(_)
concat(parts) ==
    IF Len(parts) = 0 THEN ""
    ELSE IF Len(parts) = 1 THEN parts[1]
    ELSE concat(SubSeq(parts, 1, Len(parts) \div 2))
         \o concat(SubSeq(parts, Len(parts) \div 2 + 1, Len(parts)))

\* The i-th character of s (1-based).
char(s, i) == SubSeq(s, i, i)

lower(s) == concat([i \in 1..Len(s) |-> lower_char(char(s, i))])

\* re.sub(r'[^\w\s-]', '', s): drop every character that is not a word
\* character, whitespace or a hyphen.
remove_special(s) ==
    concat([i \in 1..Len(s) |->
              IF char(s, i) \in WordChars \cup SpaceChars \cup {"-"} THEN char(s, i) ELSE ""])

\* re.sub(r'\s+', ' ', s): every run of whitespace becomes one space.
collapse_spaces(s) ==
    concat([i \in 1..Len(s) |->
              IF char(s, i) \notin SpaceChars THEN char(s, i)
              ELSE IF i > 1 /\ char(s, i - 1) \in SpaceChars THEN "" ELSE " "])

\* str.strip() on whitespace.
strip(s) ==
    LET inked == {i \in 1..Len(s) : char(s, i) \notin SpaceChars}
    IN  IF inked = {} THEN ""
        ELSE SubSeq(s, CHOOSE i \in inked : \A j \in inked : i <= j,
                       CHOOSE i \in inked : \A j \in inked : i >= j)

\* A normalization that strips the ends before the special characters are removed.
_normalize_query_strip_first(query) == collapse_spaces(remove_special(strip(lower(query))))

\* Search._normalize_query
_normalize_query(query) == strip(collapse_spaces(remove_special(lower(query))))

\* str.find(sub): the lowest 0-based index of sub in s, or -1.
find(s, sub) ==
    LET at == {i \in 1..(Len(s) - Len(sub) + 1) : SubSeq(s, i, i + Len(sub) - 1) = sub}
    IN  IF at = {} THEN -1 ELSE (CHOOSE i \in at : \A j \in at : i <= j) - 1

\* The Python slice s[start:end] for 0 <= start and 0 <= end.
slice(s, start, end) == SubSeq(s, start + 1, IF end > Len(s) THEN Len(s) ELSE end)

\* str.replace(old, new) for a non-empty old: every non-overlapping occurrence, left to right.
RECURSIVE replace(_, _, _)
replace(s, old, new) ==
    IF find(s, old) = -1 THEN s
    ELSE slice(s, 0, find(s, old)) \o new
         \o replace(slice(s, find(s, old) + Len(old), Len(s)), old, new)

\* str.split(): the maximal runs of non-whitespace characters.
RECURSIVE split(_)
split(s) ==
    IF strip(s) = "" THEN <<>>
    ELSE LET t == strip(s)
             gaps == {i \in 1..Len(t) : char(t, i) \in SpaceChars}
             stop == IF gaps = {} THEN Len(t) + 1 ELSE CHOOSE i \in gaps : \A j \in gaps : i <= j
         IN  <<SubSeq(t, 1, stop - 1)>> \o split(SubSeq(t, stop, Len(t)))

\* re.sub(r'<[^>]+>', '', s): a '<', one or more characters other than '>',
\* and the '>' after them are removed; scanning goes on after each match.
RECURSIVE strip_tags(_)
strip_tags(s) ==
    LET opens == {i \in 1..Len(s) :
                    /\ char(s, i) = "<"
                    /\ find(slice(s, i, Len(s)), ">") >= 1}
        open == CHOOSE i \in opens : \A j \in opens : i <= j
        close == open + find(slice(s, open, Len(s)), ">") + 1
    IN  IF opens = {} THEN s
        ELSE SubSeq(s, 1, open - 1) \o strip_tags(SubSeq(s, close + 1, Len(s)))

\* re.compile('(' + re.escape(term) + ')', re.IGNORECASE).sub(r'<mark>\1</mark>', s)
\* for a non-empty term: every non-overlapping occurrence of the term as
\* written in s, whatever its case, is wrapped; scanning goes on after it.
RECURSIVE mark(_, _)
mark(s, term) ==
    LET pos == find(lower(s), lower(term))
    IN  IF pos = -1 THEN s
        ELSE slice(s, 0, pos)
             \o "<mark>" \o slice(s, pos, pos + Len(term)) \o "</mark>"
             \o mark(slice(s, pos + Len(term), Len(s)), term)

\* The loop of highlight_query over the terms.
RECURSIVE mark_all(_, _)
mark_all(s, terms) ==
    IF terms = <<>> THEN s ELSE mark_all(mark(s, Head(terms)), Tail(terms))

\* Search.highlight_query
highlight_query(text, query) ==
    IF text = "" \/ query = "" THEN text
    ELSE mark_all(replace(replace(replace(text, "&", "&amp;"), "<", "<"), ">", ">"),
                  split(_normalize_query(query)))

\* Search.get_excerpt: the pair (excerpt, has_more).
get_excerpt(content, query, length) ==
    IF content = "" \/ query = "" THEN [text |-> "", has_more |-> FALSE]
    ELSE LET stripped == strip_tags(content)
             query_norm == _normalize_query(query)
             content_norm == _normalize_query(stripped)
             pos == find(content_norm, query_norm)
             start == IF pos - length \div 2 > 0 THEN pos - length \div 2 ELSE 0
             stop == pos + Len(query) + length \div 2
             end == IF stop < Len(stripped) THEN stop ELSE Len(stripped)
             prefix == IF start > 0 THEN "..." ELSE ""
             suffix == IF end < Len(stripped) THEN "..." ELSE ""
         IN  IF pos = -1
             THEN (IF Len(stripped) <= length
                   THEN [text |-> stripped, has_more |-> FALSE]
                   ELSE [text |-> slice(stripped, 0, length) \o "...", has_more |-> TRUE])
             ELSE [text |-> prefix \o slice(stripped, start, end) \o suffix,
                   has_more |-> end < Len(stripped)]

\* seq[:n] of Python: the first n items for n >= 0, all but the last -n for n < 0.
head(seq, n) ==
    IF n >= 0 THEN SubSeq(seq, 1, IF n < Len(seq) THEN n ELSE Len(seq))
    ELSE SubSeq(seq, 1, Len(seq) + n)

\* stop_words of _extract_keywords.
stop_words == {"the", "be", "to", "of", "and", "a", "in", "that", "have"}

\* A filter that keeps the stop words.
keeps_word_of_length(w, min_length) == Len(w) >= min_length

\* 'len(w) >= min_length and w not in stop_words'
keeps_word(w, min_length) == Len(w) >= min_length /\ w \notin stop_words

\* sorted(items, key=..., reverse=True), given the items and the key of each
\* (keys[i] is the key of items[i]): by descending key, items of equal key in
\* the order they have in items (the sort is stable, also under reverse).
sorted_desc(items, keys) ==
    LET before(k, i, j) == k[i] > k[j] \/ (k[i] = k[j] /\ i < j)
        rank(k, j) == Cardinality({i \in DOMAIN k : before(k, i, j)}) + 1
    IN  CHOOSE out \in {[r \in DOMAIN it |-> it[CHOOSE j \in DOMAIN it : rank(k, j) = r]] :
                            it \in {items}, k \in {keys}} : TRUE

\* The keys of a dict that counts the words of a list: each word once, in
\* the order of first occurrence.
counted(words) ==
    LET firsts == {i \in DOMAIN words : \A j \in 1..(i - 1) : words[j] # words[i]}
    IN  SelectSeq([i \in DOMAIN words |-> IF i \in firsts THEN words[i] ELSE ""],
                  LAMBDA w : w # "")

\* How often each of the words of keys occurs in words.
counts(keys, words) ==
    [k \in DOMAIN keys |-> Cardinality({i \in DOMAIN words : words[i] = keys[k]})] \o <<>>

\* The frequency count and the sort of _extract_keywords, from the kept words on.
top_keywords(words, max_keywords) ==
    head(sorted_desc(counted(words), counts(counted(words), words)), max_keywords)

\* Search._extract_keywords(text, min_length, max_keywords): the words of the
\* text without its tags, lower-cased; those kept by the filter; counted in
\* a dict, whose items are in the order of first occurrence; sorted by
\* descending count; the first max_keywords of them.
_extract_keywords(text, min_length, max_keywords) ==
    top_keywords(SelectSeq(split(lower(strip_tags(text))),
                           LAMBDA w : keeps_word(w, min_length)),
                 max_keywords)

---------------------------------------------------------------------------
(* The matcher: Search.search, the function that cache.memoize wraps       *)

\* column.ilike('%' + query + '%'): the column, lower-cased, is matched against
\* the LIKE pattern, in which '_' stands for any one character (the '%' signs
\* put around the query stand for any text); a NULL column matches nothing.
ilike(column, query) ==
    /\ column # None
    /\ \E i \in 1..(Len(column.s) - Len(query) + 1) :
          \A k \in 1..Len(query) :
              \/ char(query, k) = "_"
              \/ lower_char(char(column.s, i + k - 1)) = lower_char(char(query, k))

\* The rows that the two queries of Search.search return, by id. The order of
\* the rows (order_by) is not represented, and limit is None in every call.
matching_posts(query, include_drafts) ==
    {id \in DOMAIN db.posts :
        /\ include_drafts \/ db.posts[id].published
        /\ \/ ilike(S(db.posts[id].title), query)
           \/ ilike(S(db.posts[id].content), query)
           \/ ilike(db.posts[id].excerpt, query)}
matching_pages(query, include_drafts) ==
    {id \in DOMAIN db.pages :
        /\ include_drafts \/ db.pages[id].published
        /\ \/ ilike(S(db.pages[id].title), query)
           \/ ilike(S(db.pages[id].content), query)}

\* The tuple (posts, pages) that search returns.
Found(posts, pages) == [t |-> "tuple", posts |-> posts, pages |-> pages]

\* The body of Search.search(self, query, limit=None, include_drafts=False).
search(query, include_drafts) ==
    IF query = "" THEN Found({}, {})
    ELSE Found(matching_posts(_normalize_query(query), include_drafts),
               matching_pages(_normalize_query(query), include_drafts))

\* include_drafts as the call passes it: a keyword argument, or the default False.
include_drafts_of(kwargs) ==
    IF "include_drafts" \in DOMAIN kwargs THEN kwargs["include_drafts"].b ELSE FALSE

\* A table of the content store is a function from the ids of its rows to the
\* rows; a new row gets the id after the largest one in the table, and the id
\* of a deleted row is no longer in the table.
row_count(rows) == Cardinality(DOMAIN rows)
next_id(rows) ==
    IF DOMAIN rows = {} THEN 1
    ELSE (CHOOSE i \in DOMAIN rows : \A j \in DOMAIN rows : i >= j) + 1
with_row(rows, row) ==
    [i \in (DOMAIN rows) \cup {next_id(rows)} |-> IF i \in DOMAIN rows THEN rows[i] ELSE row]
without_rows(rows, ids) == [i \in (DOMAIN rows) \ ids |-> rows[i]]
\* The ids of a table in ascending order.
RECURSIVE ids_of(_)
ids_of(rows) ==
    IF DOMAIN rows = {} THEN <<>>
    ELSE LET top == next_id(rows) - 1
         IN  Append(ids_of(without_rows(rows, {top})), top)

\* The keywords of a post: _extract_keywords(post.title + ' ' + post.content).
keywords_of(post) == _extract_keywords(post.title \o " " \o post.content, 4, 10)

\* The key of the sort in get_related: the number of keywords kw with
\* kw.lower() in p.title.lower() or kw.lower() in p.content.lower().
match_score(keywords, p) ==
    Cardinality({i \in DOMAIN keywords :
                    \E kw \in {lower(keywords[i])} :
                        \/ \E title \in {lower(p.title)} : Contains(kw, title)
                        \/ \E content \in {lower(p.content)} : Contains(kw, content)})

\* The rows of the query of get_related, by id and in the order of the ids:
\* the published posts other than the post whose title or content is ilike
\* one of the keywords. or_() of no clauses at all is an empty criterion, with
\* which filter() restricts nothing.
related_query(id, keywords) ==
    SelectSeq(ids_of(db.posts),
              LAMBDA p : /\ p # id
                         /\ db.posts[p].published
                         /\ \/ keywords = <<>>
                            \/ \E i \in DOMAIN keywords :
                                  \/ ilike(S(db.posts[p].title), keywords[i])
                                  \/ ilike(S(db.posts[p].content), keywords[i]))

\* The score of each of these posts.
match_scores(keywords, related) ==
    [i \in DOMAIN related |-> match_score(keywords, db.posts[related[i]])] \o <<>>

\* The sort and the cut of get_related, from the rows of the query on.
top_related(keywords, related, limit) ==
    head(sorted_desc(related, match_scores(keywords, related)), limit)

\* Search.get_related(post, limit) for the post of this id: the ids of the
\* rows of the query, sorted by descending score, the first limit of them.
get_related(id, limit) ==
    CHOOSE related \in {top_related(keywords, related_query(id, keywords), limit) :
                            keywords \in {keywords_of(db.posts[id])}} : TRUE

---------------------------------------------------------------------------
(* State, and the operations of Cache on explicit keys *)

Keys == {"user:1:profile", "user:2:profile"}
Values == {S("data"), S("value1")}
Timeouts == {None, I(0), I(1)}
Patterns == {"user:1:*", "c6"}

\* Time steps: one tick, and one tick short of the default timeout.
Delays == {1, CACHE_DEFAULT_TIMEOUT * TicksPerSec - 1}

NeverSet ==
    [state |-> "never", value |-> None, timeout |-> None, at |-> 0, replaced |-> FALSE]
Gone(how) ==
    [state |-> how, value |-> None, timeout |-> None, at |-> 0, replaced |-> FALSE]
Op(op, key, rv, out) == [op |-> op, key |-> key, rv |-> rv, out |-> out]

\* A logical call: what is called with which arguments under which ambient
\* request parameters. A receiving object counts by its class, not by which
\* instance it is or where it lives in memory.
logical_arg(v) == IF v.t = "obj" THEN [t |-> "obj", class |-> "Search"] ELSE v
logical_call(c) ==
    [f |-> c.f, key_prefix |-> c.key_prefix,
     args |-> [i \in 1..Len(c.args) |-> logical_arg(c.args[i])],
     kwargs |-> c.kwargs,
     params |-> IF c.request.active THEN c.request.args ELSE EmptyDict]

NoCall == [f |-> "", key_prefix |-> "", args |-> <<>>, kwargs |-> EmptyDict, params |-> EmptyDict]
NoKey == [made |-> FALSE, call |-> NoCall, joined |-> "", key |-> ""]

\* Rows of the content store. A Post has title, content, excerpt (nullable) and
\* published; a Page has title, content and published.
PostRow(title, content, excerpt, published) ==
    [title |-> title, content |-> content, excerpt |-> excerpt, published |-> published]
PageRow(title, content, published) ==
    [title |-> title, content |-> content, published |-> published]

\* The content store the model starts from: the rows of test_basic_search and
\* test_search_pages, with a draft and with text that has punctuation in it.
InitialDb ==
    [posts |-> << PostRow("Test Post", "Test content", None, TRUE),
                  PostRow("Hello, World!", "Different content", S("axb"), TRUE),
                  PostRow("Test Draft", "Draft content", None, FALSE) >>,
     pages |-> << PageRow("Test Page", "Test content", TRUE),
                  PageRow("About", "About us", FALSE) >>]

\* No reindex has been called yet.
NoReindex ==
    [phase |-> "Idle", trigger |-> "none", i |-> 0, count |-> 0, rv |-> None,
     out |-> "none", before |-> {}, disturbed |-> FALSE, changed |-> FALSE,
     reported |-> FALSE, cleanup |-> FALSE]

\* No text function has been called yet.
NoPure == [op |-> "none"]

\* No thread is inside a call.
NoThreads == [t \in {} |-> None]

Init ==
    /\ cache_type \in CacheTypes
    /\ store = EmptyStore
    /\ now = 0
    /\ ticks = 0
    /\ last = Op("init", "", None, "ok")
    /\ lastSet = [k \in Keys |-> NeverSet]
    /\ counter = 0
    /\ addr = [o \in Instances |-> IF o = "search" THEN "7f3a10c0" ELSE "7f3a58e0"]
    /\ keyA = NoKey
    /\ keyB = NoKey
    /\ reachable = TRUE
    /\ db = InitialDb
    /\ reindex = NoReindex
    /\ pure = NoPure
    /\ threads = NoThreads

Get(key) ==
    /\ reachable
    /\ store' = store_after_get(store, key)
    /\ last' = Op("get", key, cache_get(store, key), "ok")
    /\ UNCHANGED <<cache_type, now, ticks, lastSet, counter, addr, keyA, keyB>>
    /\ UNCHANGED searchVars

Set(key, value, timeout) ==
    /\ reachable
    /\ below_threshold(store)
    /\ store' = cache_set(store, key, value, timeout)
    /\ last' = Op("set", key, B(TRUE), "ok")
    /\ lastSet' = [lastSet EXCEPT ![key] =
                      [state |-> "set", value |-> value, timeout |-> timeout, at |-> now,
                       replaced |-> cache_get(store, key) \notin {None, value}]]
    /\ UNCHANGED <<cache_type, now, ticks, counter, addr, keyA, keyB>>
    /\ UNCHANGED searchVars

Delete(key) ==
    /\ reachable
    /\ store' = cache_delete(store, key)
    /\ last' = Op("delete", key, None, "ok")
    /\ lastSet' = [lastSet EXCEPT ![key] = Gone("deleted")]
    /\ UNCHANGED <<cache_type, now, ticks, counter, addr, keyA, keyB>>
    /\ UNCHANGED searchVars

Clear ==
    /\ reachable
    /\ store' = cache_clear(store)
    /\ last' = Op("clear", "", None, "ok")
    /\ lastSet' = [k \in Keys |-> Gone("cleared")]
    /\ UNCHANGED <<cache_type, now, ticks, counter, addr, keyA, keyB>>
    /\ UNCHANGED searchVars

Invalidate(pattern) ==
    /\ reachable
    /\ store' = IF cache_type = "redis" THEN store ELSE invalidate_files(store, pattern)
    /\ last' = Op("invalidate", pattern, None, invalidate_outcome)
    /\ lastSet' = [k \in Keys |->
                      IF backend_key(k) \in DOMAIN store /\ backend_key(k) \notin DOMAIN store'
                      THEN Gone("invalidated") ELSE lastSet[k]]
    /\ UNCHANGED <<cache_type, now, ticks, counter, addr, keyA, keyB>>
    /\ UNCHANGED searchVars

Tick(d) ==
    /\ ticks < MaxTicks
    /\ now' = now + d
    /\ ticks' = ticks + 1
    /\ last' = Op("tick", "", None, "ok")
    /\ UNCHANGED <<cache_type, store, lastSet, counter, addr, keyA, keyB>>
    /\ UNCHANGED searchVars

Next ==
    \/ \E key \in Keys : Get(key)
    \/ \E key \in Keys, value \in Values, timeout \in Timeouts : Set(key, value, timeout)
    \/ \E key \in Keys : Delete(key)
    \/ Clear
    \/ \E pattern \in Patterns : Invalidate(pattern)
    \/ \E d \in Delays : Tick(d)

Spec == Init /\ [][Next]_vars

---------------------------------------------------------------------------
(* Claims about the cache store (checked under Spec) *)

\* The last operation was get(k) and k's most recent set has not been followed
\* by a delete, a clear or an invalidation that removed it.
GotAfterSet == last.op = "get" /\ lastSet[last.key].state = "set"
SetOf == lastSet[last.key]
Elapsed == now - lastSet[last.key].at

\* C5: Cache round-trip: a get of k at the time of k's most recent set returns
\* the value of that set, also when the set overwrote another value.
C5_RoundTrip ==
    (GotAfterSet /\ Elapsed = 0) => last.rv = SetOf.value

\* C5 witness: a get right after a set that overwrote another live value returns the new value.
C5_Witness ==
    /\ GotAfterSet /\ Elapsed = 0
    /\ SetOf.replaced /\ SetOf.timeout = I(1)
    /\ last.rv = SetOf.value

\* C6 (as stated): once t time units have elapsed since set(k, v, t), and at
\* once for t = 0, get(k) returns absent.
C6_ExpiryAsStated ==
    (GotAfterSet /\ SetOf.timeout # None /\ Elapsed >= SetOf.timeout.i * TicksPerSec)
        => last.rv = None

\* C6 (amended): after set(k, v, t) with t > 0, once more than t time units
\* have elapsed get(k) returns absent; after set(k, v, 0) the entry does not
\* expire: get(k) returns v at that time and at any later time.
C6_Expiry ==
    (GotAfterSet /\ SetOf.timeout # None) =>
        /\ (SetOf.timeout.i > 0 /\ Elapsed > SetOf.timeout.i * TicksPerSec) => last.rv = None
        /\ SetOf.timeout.i = 0 => last.rv = SetOf.value

\* C6 witness: a get more than one second after set(k, v, 1) returns absent.
C6_Witness ==
    /\ GotAfterSet /\ SetOf.timeout = I(1)
    /\ Elapsed > TicksPerSec
    /\ last.rv = None

\* C7 (as stated): an entry set with timeout=None never expires: get(k)
\* returns v at every later time.
C7_NeverExpiresAsStated ==
    (GotAfterSet /\ SetOf.timeout = None) => last.rv = SetOf.value

\* C7 (amended): an entry set with timeout=None gets the backend's default
\* timeout of 300 seconds: get(k) returns v while no more than 299 seconds
\* have elapsed, and absent once more than 300 seconds have.
C7_DefaultTimeout ==
    (GotAfterSet /\ SetOf.timeout = None) =>
        /\ Elapsed <= (CACHE_DEFAULT_TIMEOUT - 1) * TicksPerSec => last.rv = SetOf.value
        /\ Elapsed > CACHE_DEFAULT_TIMEOUT * TicksPerSec => last.rv = None

\* C7 witness: a get more than 300 seconds after set(k, v) with timeout=None returns absent.
C7_Witness ==
    /\ GotAfterSet /\ SetOf.timeout = None
    /\ Elapsed > CACHE_DEFAULT_TIMEOUT * TicksPerSec
    /\ last.rv = None

\* C8: after delete(k) or clear(), get(k) returns absent until k is set again;
\* delete(k) leaves the entries of the other keys as they were, and after
\* clear() no key has an entry.
C8_DeleteClear ==
    /\ [](last.op = "get" /\ lastSet[last.key].state \in {"deleted", "cleared"}
            => last.rv = None)
    /\ [](last.op = "clear" => \A k \in Keys : cache_get(store, k) = None)
    /\ [][\A k \in Keys : Delete(k) =>
            /\ backend_key(k) \notin DOMAIN store'
            /\ Remove(store', {backend_key(k)}) = Remove(store, {backend_key(k)})]_vars

\* C8 witness: a get after delete(k) returns absent while another key still holds its value.
C8_Witness ==
    /\ last.op = "get" /\ lastSet[last.key].state = "deleted" /\ last.rv = None
    /\ \E j \in Keys \ {last.key} :
          lastSet[j].state = "set" /\ cache_get(store, j) = lastSet[j].value

\* s starts with prefix.
StartsWith(s, prefix) == Len(s) >= Len(prefix) /\ SubSeq(s, 1, Len(prefix)) = prefix

\* The prefix of a pattern 'prefix*'.
PrefixOf(pattern) == SubSeq(pattern, 1, Len(pattern) - 1)
IsPrefixPattern(pattern) == Len(pattern) > 0 /\ SubSeq(pattern, Len(pattern), Len(pattern)) = "*"

\* C9: after invalidate(p) with p a prefix followed by '*', get(k) is absent
\* for every key that starts with the prefix, and no key that does not start
\* with it has lost its entry to the invalidation; on every backend.
C9_PatternInvalidation ==
    (last.op = "invalidate" /\ IsPrefixPattern(last.key)) =>
        \A k \in Keys :
            IF StartsWith(k, PrefixOf(last.key))
            THEN cache_get(store, k) = None
            ELSE lastSet[k].state # "invalidated"

\* C10: invalidate on a backend that can neither scan patterns natively nor
\* enumerate its keys ends in CapabilityError.
C10_CapabilityError ==
    (last.op = "invalidate" /\ ~scans_patterns /\ ~enumerates_keys)
        => last.out = "CapabilityError"

---------------------------------------------------------------------------
(* Key derivation on its own: _make_cache_key applied to calls of decorated  *)
(* functions, in a process that can be restarted.                           *)

ArgTuples == {<<S("1")>>, <<I(1)>>, <<S("a_b")>>, <<S("a"), S("b")>>, <<S("a")>>}
KwargDicts == {EmptyDict, [n \in {"q"} |-> S("x")]}
Requests == {NoRequest, Request(EmptyDict), Request([n \in {"q"} |-> S("x")])}

\* Calls of a decorated plain function f: memoize uses the prefix 'memo',
\* cached its default key_prefix 'view'.
FunctionCalls ==
    [f : {"f"}, key_prefix : {"memo", "view"}, args : ArgTuples,
     kwargs : KwargDicts, request : Requests]

\* Calls of the memoized method Search.search: args[0] is the Search instance.
SearchCalls ==
    [f : {"search"}, key_prefix : {"memo"},
     args : {<<O(o), S(q)>> : o \in Instances, q \in {"news", "about"}},
     kwargs : {EmptyDict, [n \in {"include_drafts"} |-> B(TRUE)]},
     request : Requests]

\* A decorated function is called and derives its cache key.
MakeKey(c) ==
    /\ keyA' = [made |-> TRUE,
                call |-> logical_call(c),
                joined |-> joined_key(c.f, c.key_prefix, c.args, c.kwargs, c.request),
                key |-> _make_cache_key(c.f, c.key_prefix, c.args, c.kwargs, c.request)]
    /\ keyB' = keyA
    /\ UNCHANGED <<cache_type, store, now, ticks, last, lastSet, counter, addr>>
    /\ UNCHANGED searchVars

\* The process is restarted: the instances are built again, at other addresses.
\* The cache directory and the Redis server outlive the process.
Restart ==
    /\ \E a \in [Instances -> Addresses] :
          /\ \A o1, o2 \in Instances : o1 # o2 => a[o1] # a[o2]
          /\ a # addr
          /\ addr' = a
    /\ UNCHANGED <<cache_type, store, now, ticks, last, lastSet, counter, keyA, keyB>>
    /\ UNCHANGED searchVars

NextKey ==
    \/ \E c \in FunctionCalls : MakeKey(c)
    \/ \E c \in SearchCalls : MakeKey(c)
    \/ Restart

SpecKey == Init /\ [][NextKey]_vars

\* C3: key sensitivity: the joined key strings of two different logical calls
\* (differing in prefix, function, an argument, a keyword argument or an
\* ambient request parameter) are never equal.
C3_KeySensitivity ==
    (keyA.made /\ keyB.made /\ keyA.call # keyB.call) => keyA.joined # keyB.joined

\* C4: key stability: the key of a logical call is the same whenever and
\* wherever it is derived: in another process run, with another instance of
\* the receiving object.
C4_KeyStability ==
    (keyA.made /\ keyB.made /\ keyA.call = keyB.call) => keyA.key = keyB.key

---------------------------------------------------------------------------
(* The decorators: Cache.memoize and Cache.cached *)

\* The decorated functions of the model, with the decorator's arguments:
\*   f(x)            memoize(timeout=60), pure: returns its argument
\*   nothing()       memoize(), pure: returns None
\*   test_function() cached(timeout=60), impure: bumps a counter and returns it
\* Search.search(self, query, include_drafts=False) is memoize(timeout=300); its
\* calls are SearchRequests below.
DecoratedCalls ==
    [f : {"f"}, key_prefix : {"memo"}, timeout : {I(60)},
     args : {<<S("1")>>, <<I(1)>>}, kwargs : {EmptyDict},
     request : {NoRequest, Request([n \in {"q"} |-> S("x")])}]
    \cup
    [f : {"nothing"}, key_prefix : {"memo"}, timeout : {I(5 * 60)},
     args : {<<>>}, kwargs : {EmptyDict}, request : {NoRequest}]
    \cup
    [f : {"test_function"}, key_prefix : {"view"}, timeout : {I(60)},
     args : {<<>>}, kwargs : {EmptyDict}, request : {NoRequest}]

is_pure(f) == f \in {"f", "nothing"}

\* rv = f(*args, **kwargs): what the wrapped function returns when it is invoked.
wrapped_result(c) ==
    CASE c.f = "f" -> c.args[1]
      [] c.f = "nothing" -> None
      [] c.f = "test_function" -> I(counter + 1)
      [] c.f = "search" -> search(c.args[2].s, include_drafts_of(c.kwargs))

\* Whether a live entry exists for the call of f with these arguments under
\* some ambient request context (any of those the decorated f is called in).
memoized_anywhere(c) ==
    /\ c.f = "f"
    /\ \E r \in {d.request : d \in {x \in DecoratedCalls : x.f = c.f}} :
          LET k == backend_key(_make_cache_key(c.f, c.key_prefix, c.args, c.kwargs, r))
          IN  k \in DOMAIN store /\ is_live(store[k])

\* decorated_function of memoize and of cached (the two bodies are the same but
\* for the key prefix): derive the key, get; on a value other than None return
\* it; otherwise invoke f, set the result with the decorator's timeout, return it.
\* This is the call while the backend's storage can be reached; it touches
\* the state of the cache layer only.
decorated_function(c) ==
    LET cache_key == _make_cache_key(c.f, c.key_prefix, c.args, c.kwargs, c.request)
        rv == cache_get(store, cache_key)
        had == backend_key(cache_key) \in DOMAIN store /\ is_live(store[backend_key(cache_key)])
        report(invoked, result) ==
            [op |-> "call", key |-> cache_key, rv |-> result, out |-> "ok",
             f |-> c.f, args |-> c.args, kwargs |-> c.kwargs, request |-> c.request,
             invoked |-> invoked, had |-> had,
             stored |-> rv, up |-> TRUE, memoized |-> memoized_anywhere(c)]
    IN  /\ reachable
        /\ c.f = "test_function" => counter < MaxCounter
        /\ below_threshold(store)
        /\ IF rv # None
           THEN /\ store' = store_after_get(store, cache_key)
                /\ last' = report(FALSE, rv)
                /\ counter' = counter
           ELSE /\ store' = cache_set(store_after_get(store, cache_key), cache_key,
                                      wrapped_result(c), c.timeout)
                /\ last' = report(TRUE, wrapped_result(c))
                /\ counter' = IF c.f = "test_function" THEN counter + 1 ELSE counter
        /\ UNCHANGED <<cache_type, now, ticks, lastSet, addr, keyA, keyB>>

\* A call of a decorated function by the application.
Call(c) ==
    /\ decorated_function(c)
    /\ UNCHANGED searchVars

NextMemo ==
    \/ \E c \in DecoratedCalls : Call(c)
    \/ Clear
    \/ \E d \in Delays : Tick(d)

SpecMemo == Init /\ [][NextMemo]_vars

\* C1: once a call has stored its result, and while that entry is stored and
\* not expired, a later call with the same arguments returns the stored value
\* and does not invoke the wrapped function, whatever the value is.
C1_HitSkipsFunction ==
    (last.op = "call" /\ last.had) => (~last.invoked /\ last.rv = last.stored)

\* C12: the key of a memoized computation is derived from the function and
\* its arguments alone: while a value memoized for a call of f is stored and
\* not expired, the same call under any other request parameters, or outside
\* a request, is a hit and does not invoke f.
C12_MemoizeIgnoresRequest ==
    (last.op = "call" /\ last.f = "f" /\ last.memoized) => ~last.invoked

\* C2: memoization transparency: a memoized call of a pure function returns
\* what the function returns for these arguments, whatever was called before.
C2_Transparency ==
    (last.op = "call" /\ is_pure(last.f)) =>
        last.rv = (IF last.f = "f" THEN last.args[1] ELSE None)

---------------------------------------------------------------------------
(* The decorators while the backend's storage cannot be reached *)

\* What an operation of the backend does while its storage cannot be reached.
\* RedisCache talks to the server in every operation and lets the client's
\* ConnectionError through. FileSystemCache.get catches the I/O error of
\* opening the file and returns None; FileSystemCache.set and .clear list the
\* cache directory first (to prune, to remove), which raises OSError.
unreachable_get == IF cache_type = "redis" THEN "ConnectionError" ELSE "None"
unreachable_set == IF cache_type = "redis" THEN "ConnectionError" ELSE "OSError"
unreachable_clear == IF cache_type = "redis" THEN "ConnectionError" ELSE "OSError"

\* decorated_function of memoize and of cached while the storage cannot be
\* reached: neither decorator has a try around self.get or self.set. When get
\* raises, the call ends there, before f. When get returns None, f is invoked
\* and self.set raises, so the call ends in the error and rv is not returned.
decorated_function_raises(c) ==
    LET cache_key == _make_cache_key(c.f, c.key_prefix, c.args, c.kwargs, c.request)
        report(invoked, out) ==
            [op |-> "call", key |-> cache_key, rv |-> None, out |-> out,
             f |-> c.f, args |-> c.args, kwargs |-> c.kwargs, request |-> c.request,
             invoked |-> invoked, had |-> FALSE,
             stored |-> None, up |-> FALSE, memoized |-> FALSE,
             result |-> wrapped_result(c)]
    IN  /\ ~reachable
        /\ c.f = "test_function" => counter < MaxCounter
        /\ IF unreachable_get # "None"
           THEN /\ last' = report(FALSE, unreachable_get)
                /\ counter' = counter
           ELSE /\ last' = report(TRUE, unreachable_set)
                /\ counter' = IF c.f = "test_function" THEN counter + 1 ELSE counter
        /\ UNCHANGED <<cache_type, store, now, ticks, lastSet, addr, keyA, keyB>>

\* A call of a decorated function by the application during an outage.
CallUnreachable(c) ==
    /\ decorated_function_raises(c)
    /\ UNCHANGED searchVars

\* The Redis server goes down, the cache directory becomes inaccessible.
Fail ==
    /\ reachable
    /\ reachable' = FALSE
    /\ UNCHANGED <<cache_type, store, now, ticks, last, lastSet, counter, addr, keyA, keyB>>
    /\ UNCHANGED <<db, reindex, pure, threads>>

\* The storage is back, with what it held.
Recover ==
    /\ ~reachable
    /\ reachable' = TRUE
    /\ UNCHANGED <<cache_type, store, now, ticks, last, lastSet, counter, addr, keyA, keyB>>
    /\ UNCHANGED <<db, reindex, pure, threads>>

NextOutage ==
    \/ \E c \in DecoratedCalls : Call(c)
    \/ \E c \in DecoratedCalls : CallUnreachable(c)
    \/ Fail
    \/ Recover

SpecOutage == Init /\ [][NextOutage]_vars

\* C11: when the backend's get or set fails because the storage cannot be
\* reached, a call of a memoized or cached function still invokes the wrapped
\* function and returns its result; the backend's error is not the outcome
\* of the call.
C11_FallThrough ==
    (last.op = "call" /\ ~last.up) =>
        (last.out = "ok" /\ last.invoked /\ last.rv = last.result)

---------------------------------------------------------------------------
(* The text functions applied to inputs: Search._normalize_query,          *)
(* Search.get_excerpt and Search.highlight_query are pure.                 *)

\* The state of the cache layer, which the text functions do not touch.
cacheVars == <<cache_type, store, now, ticks, last, lastSet, counter, addr, keyA, keyB>>

\* Contents, queries and window lengths: those of test_search_excerpts and
\* test_search_highlighting, and texts with markup, punctuation and runs of spaces.
ExcerptContents ==
    { "This is a long piece of content that contains the search term somewhere in the middle.",
      "<p>Hello,   World! This is   the search term.</p>",
      "short",
      "" }
ExcerptQueries == {"search term", "world", "Search Term!", "zzz", ""}
Lengths == {50, 10, 4}
HighlightTexts ==
    { "This text contains the search term in it.",
      "<script>alert(1)</script>",
      "Tom & Jerry <b>search</b>",
      "" }
HighlightQueries == {"search term", "script", "alert", "TERM", "", "search mark", "jerry amp"}
NormalizeInputs ==
    ExcerptQueries \cup HighlightQueries
    \cup {"  Hello,   World!  ", "a_b-c", "!!!", "! a", "a ! b", "Tab\tand\nLine -"}

Normalize(query) ==
    /\ pure' = [op |-> "_normalize_query", query |-> query, out |-> _normalize_query(query),
                again |-> _normalize_query(_normalize_query(query))]
    /\ UNCHANGED cacheVars
    /\ UNCHANGED <<reachable, db, reindex, threads>>

Excerpt(content, query, length) ==
    /\ pure' = [op |-> "get_excerpt", content |-> content, query |-> query,
                length |-> length, out |-> get_excerpt(content, query, length)]
    /\ UNCHANGED cacheVars
    /\ UNCHANGED <<reachable, db, reindex, threads>>

Highlight(text, query) ==
    /\ pure' = [op |-> "highlight_query", text |-> text, query |-> query,
                out |-> highlight_query(text, query)]
    /\ UNCHANGED cacheVars
    /\ UNCHANGED <<reachable, db, reindex, threads>>

\* Texts, minimal lengths and caps for _extract_keywords: title and content of
\* the first post of test_related_posts, texts with tags, stop words and
\* repeated words, and a text of stop words only; the defaults 4 and 10, and
\* smaller values.
KeywordTexts ==
    { "Python Programming Python tutorial",
      "<p>The cat and THE hat that have the</p> cat, that is",
      "alpha beta gamma delta beta Gamma gamma",
      "to be of a",
      "" }
MinLengths == {1, 4}
MaxKeywords == {0, 2, 10}

Keywords(text, min_length, max_keywords) ==
    /\ pure' = [op |-> "_extract_keywords", text |-> text, min_length |-> min_length,
                max_keywords |-> max_keywords,
                out |-> _extract_keywords(text, min_length, max_keywords)]
    /\ UNCHANGED cacheVars
    /\ UNCHANGED <<reachable, db, reindex, threads>>

NextText ==
    \/ \E query \in NormalizeInputs : Normalize(query)
    \/ \E content \in ExcerptContents, query \in ExcerptQueries, length \in Lengths :
          Excerpt(content, query, length)
    \/ \E text \in HighlightTexts, query \in HighlightQueries : Highlight(text, query)
    \/ \E text \in KeywordTexts, min_length \in MinLengths, max_keywords \in MaxKeywords :
          Keywords(text, min_length, max_keywords)

SpecText == Init /\ [][NextText]_vars

\* The output of highlight_query without the markers it inserts.
without_marks(s) == replace(replace(s, "<mark>", ""), "</mark>", "")

\* C16: highlighter safety: apart from the inserted markers, the output of
\* highlight_query holds no '<' and no '>', for every text and every query
\* (the empty query too); a text with '<script>' in it never yields an
\* output with '<script>' in it.
C16_HighlighterSafety ==
    pure.op = "highlight_query" =>
        /\ ~Contains("<", without_marks(pure.out))
        /\ ~Contains(">", without_marks(pure.out))
        /\ ~Contains("<script>", pure.out)

\* C20: excerpt bound: the excerpt returned by get_excerpt is no longer than
\* the window length plus the two three-character ellipsis markers.
C20_ExcerptBound ==
    pure.op = "get_excerpt" => Len(pure.out.text) <= pure.length + 6

\* The window of get_excerpt when the query is found: the stripped text, the
\* position found in the normalized text, and the bounds start and end of
\* the slice taken from the stripped text.
excerpt_range(content, query, length) ==
    LET stripped == strip_tags(content)
        pos == find(_normalize_query(stripped), _normalize_query(query))
        stop == pos + Len(query) + length \div 2
    IN  [stripped |-> stripped,
         pos |-> pos,
         start |-> IF pos - length \div 2 > 0 THEN pos - length \div 2 ELSE 0,
         end |-> IF stop < Len(stripped) THEN stop ELSE Len(stripped)]

\* A call of get_excerpt that found the query and took a window around it.
ExcerptFound ==
    /\ pure.op = "get_excerpt"
    /\ pure.content # "" /\ pure.query # ""
    /\ excerpt_range(pure.content, pure.query, pure.length).pos # -1
ExcerptRange == excerpt_range(pure.content, pure.query, pure.length)

\* C21: the flag returned by get_excerpt is true if and only if the stripped
\* text goes on beyond the returned window on either side: text cut off before
\* the start of the window or after its end.
C21_TruncatedFlag ==
    ExcerptFound =>
        (pure.out.has_more <=>
            (ExcerptRange.start > 0 \/ ExcerptRange.end < Len(ExcerptRange.stripped)))

\* C22: whenever the normalized query occurs in the normalized stripped text,
\* the window that get_excerpt returns holds the characters of the match: the
\* window, normalized, has the normalized query in it.
C22_WindowHoldsMatch ==
    ExcerptFound =>
        Contains(_normalize_query(pure.query),
                 _normalize_query(slice(ExcerptRange.stripped,
                                        ExcerptRange.start, ExcerptRange.end)))

\* C23: normalization is idempotent: normalizing a normalized string gives
\* the same string.
C23_NormalizeIdempotent ==
    pure.op = "_normalize_query" => pure.again = pure.out

\* C23 witness: a normalization that removed characters, collapsed or stripped
\* whitespace, and left a non-empty string that a second pass leaves as it is.
C23_Witness ==
    /\ pure.op = "_normalize_query"
    /\ pure.out # ""
    /\ pure.out # lower(pure.query)
    /\ pure.out # remove_special(lower(pure.query))
    /\ pure.again = pure.out

\* C24: keyword cap: _extract_keywords returns at most max_keywords terms, and
\* no returned term is shorter than min_length or is one of the stop words.
C24_KeywordCap ==
    pure.op = "_extract_keywords" =>
        /\ Len(pure.out) <= pure.max_keywords
        /\ \A i \in DOMAIN pure.out :
              Len(pure.out[i]) >= pure.min_length /\ pure.out[i] \notin stop_words

\* C24 witness: the cap cut off keywords, and the text had stop words that
\* are long enough.
C24_Witness ==
    /\ pure.op = "_extract_keywords"
    /\ pure.max_keywords > 0
    /\ Len(pure.out) = pure.max_keywords
    /\ Len(_extract_keywords(pure.text, pure.min_length, 10)) > pure.max_keywords
    /\ \E w \in stop_words :
          /\ Len(w) >= pure.min_length
          /\ \E i \in DOMAIN split(lower(strip_tags(pure.text))) :
                split(lower(strip_tags(pure.text)))[i] = w

\* The escaping step of highlight_query.
escaped(text) == replace(replace(replace(text, "&", "&amp;"), "<", "<"), ">", ">")

\* How many times sub occurs in s, counting from left to right without overlap.
RECURSIVE occurrences(_, _)
occurrences(s, sub) ==
    IF find(s, sub) = -1 THEN 0
    ELSE 1 + occurrences(slice(s, find(s, sub) + Len(sub), Len(s)), sub)

\* C30: in the output of highlight_query the inserted markers wrap characters
\* of the escaped text only: no term matches inside a marker inserted for an
\* earlier term or inside an escape entity, so the output without its markers
\* is the escaped text, and every entity of the escaped text is in the output
\* unbroken.
C30_MarkersWrapTextOnly ==
    (pure.op = "highlight_query" /\ pure.text # "" /\ pure.query # "") =>
        /\ without_marks(pure.out) = escaped(pure.text)
        /\ occurrences(pure.out, "&amp;") = occurrences(escaped(pure.text), "&amp;")

---------------------------------------------------------------------------
(* Searches: calls of the memoized Search.search over a fixed content store *)

MaxCached == 2

\* Queries: those of test_basic_search, the empty one of SEARCH_TEST_CASES, one
\* of punctuation only, one that the punctuation of a title separates from the
\* title, and one with the LIKE wildcard '_' in it.
SearchQueries == {"test", "draft", "", "!!!", "hello world", "a_b"}

\* Calls search.search(query) and search.search(query, include_drafts=True) on
\* the module-level instance, outside a request and in a request whose query
\* string is ?include_drafts=True.
SearchRequests ==
    [f : {"search"}, key_prefix : {"memo"}, timeout : {I(300)},
     args : {<<O("search"), S(q)>> : q \in SearchQueries},
     kwargs : {EmptyDict, [n \in {"include_drafts"} |-> B(TRUE)]},
     request : {NoRequest, Request([n \in {"include_drafts"} |-> S("True")])}]

\* A call of search.search, while the cache holds fewer than MaxCached entries
\* or already holds one under the key of the call.
SearchCall(c) ==
    /\ \/ Cardinality(DOMAIN store) < MaxCached
       \/ backend_key(_make_cache_key(c.f, c.key_prefix, c.args, c.kwargs, c.request))
              \in DOMAIN store
    /\ Call(c)

NextSearch ==
    \/ \E c \in SearchRequests : SearchCall(c)
    \/ Clear

SpecSearch == Init /\ [][NextSearch]_vars

\* The last operation was a call of search.search that returned.
Searched == last.op = "call" /\ last.f = "search" /\ last.out = "ok"
SearchedQuery == _normalize_query(last.args[2].s)

\* C17: a query that normalizes to the empty string (empty, or punctuation or
\* whitespace only) gets an empty list of posts and an empty list of pages.
C17_EmptyQuery ==
    (Searched /\ SearchedQuery = "") => last.rv = Found({}, {})

\* C18: over a fixed content store, search(query) with include_drafts=False
\* returns no post and no page that is unpublished, and
\* search(query, include_drafts=True) returns the matching drafts too.
C18_DraftsFilter ==
    Searched =>
        IF include_drafts_of(last.kwargs)
        THEN SearchedQuery # "" =>
                /\ matching_posts(SearchedQuery, TRUE) \subseteq last.rv.posts
                /\ matching_pages(SearchedQuery, TRUE) \subseteq last.rv.pages
        ELSE /\ \A id \in last.rv.posts : db.posts[id].published
             /\ \A id \in last.rv.pages : db.pages[id].published

\* The text of a nullable column, NULL counting as the empty string.
text_of(column) == IF column = None THEN "" ELSE column.s

\* C19: for a query that normalizes to a non-empty string, a row that the
\* visibility filter allows is in the result of search if and only if the
\* normalized query is a substring of the row's normalized title, content or
\* excerpt (a page has no excerpt); for posts and for pages.
C19_SubstringMatch ==
    (Searched /\ last.invoked /\ SearchedQuery # "") =>
        /\ \A id \in DOMAIN db.posts :
              (include_drafts_of(last.kwargs) \/ db.posts[id].published) =>
                  (id \in last.rv.posts <=>
                      \/ Contains(SearchedQuery, _normalize_query(db.posts[id].title))
                      \/ Contains(SearchedQuery, _normalize_query(db.posts[id].content))
                      \/ Contains(SearchedQuery, _normalize_query(text_of(db.posts[id].excerpt))))
        /\ \A id \in DOMAIN db.pages :
              (include_drafts_of(last.kwargs) \/ db.pages[id].published) =>
                  (id \in last.rv.pages <=>
                      \/ Contains(SearchedQuery, _normalize_query(db.pages[id].title))
                      \/ Contains(SearchedQuery, _normalize_query(db.pages[id].content)))

---------------------------------------------------------------------------
(* Search.reindex, step by step, next to the rest of the application       *)

\* common_terms of reindex.
common_terms == <<"welcome", "about", "contact", "news">>

\* Who calls reindex: the CLI command 'search reindex' (or any other caller on
\* whose thread reindex runs), and the scheduled task update_search_index.
Triggers == {"cli", "task"}

\* self.search(term) in reindex: the memoized search on the module-level
\* instance, with the default arguments, outside a request.
warm_call(term) ==
    [f |-> "search", key_prefix |-> "memo", timeout |-> I(300),
     args |-> <<O("search"), S(term)>>, kwargs |-> EmptyDict, request |-> NoRequest]
warm_key(term) ==
    _make_cache_key("search", "memo", <<O("search"), S(term)>>, EmptyDict, NoRequest)

\* A count of the published rows only.
content_count_published ==
    Cardinality({id \in DOMAIN db.posts : db.posts[id].published})
    + Cardinality({id \in DOMAIN db.pages : db.pages[id].published})

\* len(posts) + len(pages) for posts = Post.query.all(), pages = Page.query.all().
content_count == Cardinality(DOMAIN db.posts) + Cardinality(DOMAIN db.pages)

\* Whether an exception that leaves reindex reaches the one who triggered it:
\* a direct caller and the CLI command get it; TaskManager.run_task runs the
\* task on a thread of its own inside 'try ... except Exception', writes the
\* error to the log and lets the thread end.
reaches_trigger(trigger) == trigger # "task"

\* reindex is called: Idle -> Clearing.
ReindexBegin(trigger) ==
    /\ reindex.phase = "Idle"
    /\ reindex' = [phase |-> "Clearing", trigger |-> trigger, i |-> 0, count |-> 0,
                   rv |-> None, out |-> "running", before |-> DOMAIN store,
                   disturbed |-> FALSE, changed |-> FALSE,
                   reported |-> FALSE, cleanup |-> FALSE]
    /\ UNCHANGED cacheVars
    /\ UNCHANGED <<reachable, db, pure, threads>>

\* reindex ends in an exception: it has no try, so nothing is cleaned up.
raised(error) ==
    [reindex EXCEPT !.phase = "Idle", !.out = error,
                    !.reported = reaches_trigger(reindex.trigger), !.cleanup = FALSE]

\* cache.clear(), then the two queries that are counted: Clearing -> Warming.
\* While the storage cannot be reached, clear raises and reindex ends.
ReindexClear ==
    /\ reindex.phase = "Clearing"
    /\ IF reachable
       THEN /\ store' = cache_clear(store)
            /\ lastSet' = [k \in Keys |-> Gone("cleared")]
            /\ last' = Op("clear", "", None, "ok")
            /\ reindex' = [reindex EXCEPT !.phase = "Warming", !.i = 1,
                                          !.count = content_count]
       ELSE /\ last' = Op("clear", "", None, unreachable_clear)
            /\ reindex' = raised(unreachable_clear)
            /\ UNCHANGED <<store, lastSet>>
    /\ UNCHANGED <<cache_type, now, ticks, counter, addr, keyA, keyB>>
    /\ UNCHANGED <<reachable, db, pure, threads>>

\* One turn of 'for term in common_terms: self.search(term)'; after the last
\* term reindex returns the count: Warming -> Idle. While the storage cannot
\* be reached, the search raises and reindex ends.
ReindexWarm ==
    /\ reindex.phase = "Warming"
    /\ \/ /\ decorated_function(warm_call(common_terms[reindex.i]))
          /\ reindex' = IF reindex.i < Len(common_terms)
                        THEN [reindex EXCEPT !.i = @ + 1]
                        ELSE [reindex EXCEPT !.phase = "Idle", !.out = "ok",
                                             !.rv = I(reindex.count)]
       \/ /\ decorated_function_raises(warm_call(common_terms[reindex.i]))
          /\ reindex' = raised(IF unreachable_get # "None"
                               THEN unreachable_get ELSE unreachable_set)
    /\ UNCHANGED <<reachable, db, pure, threads>>

\* Searches of the application next to a reindex: one for a warm-up term,
\* one for another query.
UserSearches == {warm_call("welcome"), warm_call("test")}

UserSearch(c) ==
    /\ decorated_function(c)
    /\ reindex' = [reindex EXCEPT !.disturbed = TRUE]
    /\ UNCHANGED <<reachable, db, pure, threads>>

\* TaskManager.cleanup_old_drafts: the old draft posts are deleted (here all
\* drafts are old). The rows that stay keep their ids.
CleanupOldDrafts ==
    /\ \E id \in DOMAIN db.posts : ~db.posts[id].published
    /\ db' = [db EXCEPT !.posts = without_rows(@, {id \in DOMAIN @ : ~@[id].published})]
    /\ reindex' = [reindex EXCEPT !.changed = TRUE]
    /\ last' = Op("cleanup_old_drafts", "", None, "ok")
    /\ UNCHANGED <<cache_type, store, now, ticks, lastSet, counter, addr, keyA, keyB>>
    /\ UNCHANGED <<reachable, pure, threads>>

NextReindex ==
    \/ \E trigger \in Triggers : ReindexBegin(trigger)
    \/ ReindexClear
    \/ ReindexWarm
    \/ \E c \in UserSearches : UserSearch(c)
    \/ CleanupOldDrafts
    \/ Fail

SpecReindex == Init /\ [][NextReindex]_vars

\* The last reindex returned, and no other cache activity has taken place
\* since it was called.
Reindexed == reindex.phase = "Idle" /\ reindex.out = "ok"

\* C13: within one call of reindex, the clear of the whole cache is complete
\* before the first warm-up search starts; with no other cache activity, when
\* reindex returns the cache holds nothing but a search entry for each of the
\* common terms (so no entry from before the call survives), and each of these
\* entries makes the next search of its term a hit.
C13_ReindexClearsThenWarms ==
    /\ (reindex.phase = "Warming" /\ reindex.i = 1 /\ ~reindex.disturbed)
            => store = EmptyStore
    /\ (Reindexed /\ ~reindex.disturbed) =>
            /\ DOMAIN store =
                  {backend_key(warm_key(common_terms[i])) : i \in DOMAIN common_terms}
            /\ \A i \in DOMAIN common_terms :
                  cache_get(store, warm_key(common_terms[i])) # None

\* C13 witness: a reindex returned where entries existed before the call, one
\* of them under the key of a warm-up search and one under another key.
C13_Witness ==
    /\ Reindexed /\ ~reindex.disturbed
    /\ backend_key(warm_key("welcome")) \in reindex.before
    /\ backend_key(warm_key("test")) \in reindex.before
    /\ backend_key(warm_key("test")) \notin DOMAIN store
    /\ cache_get(store, warm_key("news")) # None

\* C14: when the clear or a warm-up search of reindex fails, the error reaches
\* the one who triggered the reindex (the scheduled task and the CLI command
\* too), after an attempt to clean up.
C14_ReindexFailureReported ==
    (reindex.phase = "Idle" /\ reindex.out \notin {"none", "ok"})
        => (reindex.reported /\ reindex.cleanup)

\* C15: reindex returns the number of posts plus the number of pages in the
\* content store, drafts included, whatever the warm-up searches match.
C15_ReindexCount ==
    (Reindexed /\ ~reindex.changed) => reindex.rv = I(row_count(db.posts) + row_count(db.pages))

\* C15 witness: a reindex returned the count of a store that holds drafts and
\* rows that no warm-up search matches.
C15_Witness ==
    /\ Reindexed /\ ~reindex.changed
    /\ reindex.rv = I(row_count(db.posts) + row_count(db.pages))
    /\ reindex.rv.i > content_count_published
    /\ content_count_published > 0

---------------------------------------------------------------------------
(* The content store changes: the admin routes and the clean-up task       *)

MaxPosts == 5

\* new_post of the admin routes: a post with the data of the form is added
\* (while the ids are below MaxPosts). No route touches the cache.
new_post(row) ==
    /\ next_id(db.posts) <= MaxPosts
    /\ db' = [db EXCEPT !.posts = with_row(@, row)]
    /\ last' = Op("new_post", "", None, "ok")
    /\ UNCHANGED <<cache_type, store, now, ticks, lastSet, counter, addr, keyA, keyB>>
    /\ UNCHANGED <<reachable, reindex, pure, threads>>

\* edit_post of the admin routes, with the 'published' box of the form changed
\* and the other fields as they were: the post is published or unpublished.
edit_post(id, published) ==
    /\ id \in DOMAIN db.posts
    /\ db.posts[id].published # published
    /\ db' = [db EXCEPT !.posts[id].published = published]
    /\ last' = Op("edit_post", "", None, "ok")
    /\ UNCHANGED <<cache_type, store, now, ticks, lastSet, counter, addr, keyA, keyB>>
    /\ UNCHANGED <<reachable, reindex, pure, threads>>

---------------------------------------------------------------------------
(* Search.get_related over a content store that grows                      *)

\* Posts that are added: one whose text has no keyword (short words and stop
\* words only), one whose keyword has the LIKE wildcard '_' in it, and one
\* that this keyword matches as a pattern but not as a text.
RelatedPosts ==
    { PostRow("A", "to be", None, TRUE),
      PostRow("snake_case", "of a", None, TRUE),
      PostRow("Snake case", "is a test", None, TRUE) }
Limits == {0, 1, 5}

\* A call of search.get_related(post, limit) with a post of the store.
Related(id, limit) ==
    /\ id \in DOMAIN db.posts
    /\ \E keywords \in {keywords_of(db.posts[id])}, related \in {get_related(id, limit)} :
          last' = [op |-> "get_related", key |-> "", out |-> "ok",
                   post |-> id, limit |-> limit, keywords |-> keywords,
                   rv |-> related, scores |-> match_scores(keywords, related)]
    /\ UNCHANGED <<cache_type, store, now, ticks, lastSet, counter, addr, keyA, keyB>>
    /\ UNCHANGED searchVars

NextRelated ==
    \/ \E row \in RelatedPosts : new_post(row)
    \/ \E id \in 1..MaxPosts, limit \in Limits : Related(id, limit)

SpecRelated == Init /\ [][NextRelated]_vars

\* C25: get_related(post, limit) returns at most limit items, in the order of
\* descending score, and every returned item has a score of at least 1: the
\* number of keywords of the post that occur, whatever their case, in the
\* item's title or content. An item of score 0 is never returned, also when
\* the post has no keywords.
C25_RelatedByScore ==
    last.op = "get_related" =>
        /\ Len(last.rv) <= last.limit
        /\ \A i \in DOMAIN last.scores : \A j \in DOMAIN last.scores :
              i < j => last.scores[i] >= last.scores[j]
        /\ \A i \in DOMAIN last.scores : last.scores[i] >= 1

---------------------------------------------------------------------------
(* Searches next to changes of the content store                           *)

MaxContent == 4

\* The post that is added: a published one that matches 'test'.
ContentPosts == {PostRow("Latest test", "News", None, TRUE)}

\* A post is added while the ids are below MaxContent.
ContentNewPost(row) ==
    /\ next_id(db.posts) <= MaxContent
    /\ new_post(row)

\* search.search('test') and search.search('test', include_drafts=True),
\* outside a request.
ContentSearches ==
    [f : {"search"}, key_prefix : {"memo"}, timeout : {I(300)},
     args : {<<O("search"), S("test")>>},
     kwargs : {EmptyDict, [n \in {"include_drafts"} |-> B(TRUE)]},
     request : {NoRequest}]

NextContent ==
    \/ \E c \in ContentSearches : Call(c)
    \/ \E row \in ContentPosts : ContentNewPost(row)
    \/ \E id \in 1..MaxContent, published \in BOOLEAN : edit_post(id, published)
    \/ CleanupOldDrafts

SpecContent == Init /\ [][NextContent]_vars

\* C29: whatever changes of the content store (publish, unpublish, create,
\* delete) come between the searches, search(q, include_drafts=False) returns
\* no post and no page that is unpublished in the content store when the call
\* returns; the memoized result of an earlier search is not served once one
\* of its items has been unpublished.
C29_NoUnpublishedServed ==
    (Searched /\ ~include_drafts_of(last.kwargs)) =>
        /\ \A id \in last.rv.posts : id \in DOMAIN db.posts => db.posts[id].published
        /\ \A id \in last.rv.pages : id \in DOMAIN db.pages => db.pages[id].published

---------------------------------------------------------------------------
(* Two threads inside decorated_function of memoize, statement by statement *)

\* The thread t with this position and these local variables.
with_thread(t, state) ==
    [x \in (DOMAIN threads) \cup {t} |-> IF x = t THEN state ELSE threads[x]]

\* The two callers, and the calls of memoized pure functions they make: the
\* same function with the same arguments, outside a request.
Callers == {"caller1", "caller2"}
RaceCalls == {c \in DecoratedCalls : is_pure(c.f) /\ c.request = NoRequest}

\* A test that takes every value of get for a hit.
is_hit_always(rv) == TRUE

\* 'if rv is not None'
is_hit(rv) == rv # None

\* The key that the thread derived on entering decorated_function.
thread_key(t) ==
    _make_cache_key(threads[t].call.f, threads[t].call.key_prefix, threads[t].call.args,
                    threads[t].call.kwargs, threads[t].call.request)

\* A thread calls the memoized function: it is inside decorated_function,
\* before 'rv = self.get(cache_key)'. The other caller, if it is inside or
\* through, made the same call.
MemoEnter(t, c) ==
    /\ t \notin DOMAIN threads
    /\ \A u \in DOMAIN threads : threads[u].task = "memoize" /\ threads[u].call = c
    /\ threads' = with_thread(t, [task |-> "memoize", call |-> c, pc |-> "get",
                                  rv |-> None, invoked |-> FALSE])
    /\ UNCHANGED cacheVars
    /\ UNCHANGED <<reachable, db, reindex, pure>>

\* 'rv = self.get(cache_key)' and 'if rv is not None: return rv'.
MemoGet(t) ==
    /\ t \in DOMAIN threads /\ threads[t].task = "memoize" /\ threads[t].pc = "get"
    /\ store' = store_after_get(store, thread_key(t))
    /\ last' = Op("get", thread_key(t), cache_get(store, thread_key(t)), "ok")
    /\ threads' = with_thread(t,
          IF is_hit(cache_get(store, thread_key(t)))
          THEN [threads[t] EXCEPT !.pc = "returned", !.rv = cache_get(store, thread_key(t))]
          ELSE [threads[t] EXCEPT !.pc = "call"])
    /\ UNCHANGED <<cache_type, now, ticks, lastSet, counter, addr, keyA, keyB>>
    /\ UNCHANGED <<reachable, db, reindex, pure>>

\* 'rv = f(*args, **kwargs)'
MemoInvoke(t) ==
    /\ t \in DOMAIN threads /\ threads[t].task = "memoize" /\ threads[t].pc = "call"
    /\ threads' = with_thread(t, [threads[t] EXCEPT !.pc = "set", !.invoked = TRUE,
                                                    !.rv = wrapped_result(threads[t].call)])
    /\ UNCHANGED cacheVars
    /\ UNCHANGED <<reachable, db, reindex, pure>>

\* 'self.set(cache_key, rv, timeout=timeout)' and 'return rv'.
MemoSet(t) ==
    /\ t \in DOMAIN threads /\ threads[t].task = "memoize" /\ threads[t].pc = "set"
    /\ below_threshold(store)
    /\ store' = cache_set(store, thread_key(t), threads[t].rv, threads[t].call.timeout)
    /\ last' = Op("set", thread_key(t), B(TRUE), "ok")
    /\ threads' = with_thread(t, [threads[t] EXCEPT !.pc = "returned"])
    /\ UNCHANGED <<cache_type, now, ticks, lastSet, counter, addr, keyA, keyB>>
    /\ UNCHANGED <<reachable, db, reindex, pure>>

NextRace ==
    \/ \E t \in Callers, c \in RaceCalls : MemoEnter(t, c)
    \/ \E t \in Callers : MemoGet(t)
    \/ \E t \in Callers : MemoInvoke(t)
    \/ \E t \in Callers : MemoSet(t)

SpecRace == Init /\ [][NextRace]_vars

\* The callers that have returned, and those that invoked the function.
Returned == {t \in DOMAIN threads : threads[t].pc = "returned"}
Invokers == {t \in DOMAIN threads : threads[t].invoked}

\* C26: two callers of the same memoized pure function with the same
\* arguments, with no entry at the start: in every interleaving, a caller that
\* returns returns the function's result; once a caller that invoked the
\* function has returned, the entry of the key holds that result; and when
\* both have returned the function was invoked once or twice.
C26_MissRace ==
    /\ \A t \in Returned : threads[t].rv = wrapped_result(threads[t].call)
    /\ \A t \in Returned \cap Invokers :
          /\ backend_key(thread_key(t)) \in DOMAIN store
          /\ store[backend_key(thread_key(t))].value = wrapped_result(threads[t].call)
    /\ Returned = Callers => Cardinality(Invokers) \in {1, 2}

\* C26 witness: both callers missed, both invoked the function, both wrote
\* and both have returned.
C26_Witness ==
    /\ Returned = Callers
    /\ Invokers = Callers
    /\ \E t \in Callers : threads[t].rv # None

---------------------------------------------------------------------------
(* Cache.invalidate statement by statement, next to other operations       *)

\* The thread inside invalidate.
Invalidator == "invalidator"

\* Whether a key matches a pattern: 'prefix*' is matched by the keys that
\* start with the prefix, any other pattern by the key equal to it.
key_matches(pattern, k) ==
    IF IsPrefixPattern(pattern) THEN StartsWith(k, PrefixOf(pattern)) ELSE k = pattern

\* invalidate(pattern) is called. On Redis the first statement reads
\* self.cache.cache and raises; on the filesystem backend the thread is
\* before os.listdir(cache_dir).
InvalidateEnter(pattern) ==
    /\ reachable
    /\ Invalidator \notin DOMAIN threads
    /\ threads' = with_thread(Invalidator,
          [task |-> "invalidate", pattern |-> pattern,
           pc |-> IF cache_type = "redis" THEN "raised" ELSE "listdir",
           out |-> IF cache_type = "redis" THEN invalidate_outcome ELSE "running",
           files |-> {}, removed |-> {}])
    /\ UNCHANGED cacheVars
    /\ UNCHANGED <<reachable, db, reindex, pure>>

\* 'os.listdir(cache_dir)': the names of the files that exist now. With no
\* file the loop has no turn and invalidate returns.
InvalidateList ==
    /\ Invalidator \in DOMAIN threads /\ threads[Invalidator].pc = "listdir"
    /\ threads' = with_thread(Invalidator,
          [threads[Invalidator] EXCEPT
              !.files = DOMAIN store,
              !.pc = IF DOMAIN store = {} THEN "returned" ELSE "loop",
              !.out = IF DOMAIN store = {} THEN "ok" ELSE "running"])
    /\ UNCHANGED cacheVars
    /\ UNCHANGED <<reachable, db, reindex, pure>>

\* One turn of the loop, for the next name of the listing (in whatever order
\* the listing has): 'if pattern in filename: os.remove(...)'. os.remove
\* of a file that no longer exists raises FileNotFoundError, which nothing
\* catches. After the last name invalidate returns.
InvalidateRemove(filename) ==
    /\ Invalidator \in DOMAIN threads /\ threads[Invalidator].pc = "loop"
    /\ filename \in threads[Invalidator].files
    /\ LET self == threads[Invalidator]
           rest == self.files \ {filename}
           next == [self EXCEPT !.files = rest,
                                !.pc = IF rest = {} THEN "returned" ELSE "loop",
                                !.out = IF rest = {} THEN "ok" ELSE "running"]
       IN  IF ~Contains(self.pattern, filename)
           THEN /\ threads' = with_thread(Invalidator, next)
                /\ UNCHANGED <<store, last, lastSet>>
           ELSE IF filename \in DOMAIN store
           THEN /\ store' = Remove(store, {filename})
                /\ last' = Op("invalidate", self.pattern, None, "ok")
                /\ lastSet' = [k \in Keys |-> IF backend_key(k) = filename
                                              THEN Gone("invalidated") ELSE lastSet[k]]
                /\ threads' = with_thread(Invalidator,
                                          [next EXCEPT !.removed = @ \cup {filename}])
           ELSE /\ last' = Op("invalidate", self.pattern, None, "FileNotFoundError")
                /\ threads' = with_thread(Invalidator,
                                          [self EXCEPT !.pc = "raised",
                                                       !.out = "FileNotFoundError"])
                /\ UNCHANGED <<store, lastSet>>
    /\ UNCHANGED <<cache_type, now, ticks, counter, addr, keyA, keyB>>
    /\ UNCHANGED <<reachable, db, reindex, pure>>

NextInvalidate ==
    \/ \E pattern \in Patterns : InvalidateEnter(pattern)
    \/ InvalidateList
    \/ \E filename \in {backend_key(k) : k \in Keys} : InvalidateRemove(filename)
    \/ \E key \in Keys, value \in Values : Set(key, value, None)
    \/ \E key \in Keys : Delete(key)
    \/ Clear
    \/ \E pattern \in Patterns : Invalidate(pattern)

SpecInvalidate == Init /\ [][NextInvalidate]_vars

\* The call of invalidate has ended, by returning or by raising.
InvalidateEnded ==
    /\ Invalidator \in DOMAIN threads
    /\ threads[Invalidator].pc \in {"returned", "raised"}

\* C27: a pattern invalidation that lists the keys and then deletes them,
\* whatever set, delete, clear or other invalidate comes in between, ends
\* without raising an error, and it has removed no key that does not match
\* the pattern.
C27_InvalidateRace ==
    InvalidateEnded =>
        /\ threads[Invalidator].out = "ok"
        /\ \A filename \in threads[Invalidator].removed :
              \E k \in Keys : /\ backend_key(k) = filename
                              /\ key_matches(threads[Invalidator].pattern, k)

---------------------------------------------------------------------------
(* Reindex on the threads that TaskManager starts                          *)

\* The threads that run_task('update_search_index') starts: one for the call
\* by the scheduler loop when the task is due, one for a call of run_task by
\* the application.
ReindexThreads == {"scheduled", "run_task"}

\* run_task: Thread(target=run_in_context).start(), whatever other threads
\* are running; the new thread is at the start of search.reindex().
run_task(t) ==
    /\ t \notin DOMAIN threads
    /\ threads' = with_thread(t, [task |-> "update_search_index", pc |-> "Clearing",
                                  i |-> 0, wrote |-> {}, clobbered |-> FALSE])
    /\ UNCHANGED cacheVars
    /\ UNCHANGED <<reachable, db, reindex, pure>>

\* The threads that are inside reindex, and what the warm-up of the threads
\* other than t that are inside reindex has written so far.
Reindexing ==
    {t \in DOMAIN threads : /\ threads[t].task = "update_search_index"
                            /\ threads[t].pc \in {"Clearing", "Warming"}}
written_by_others(t) == UNION {threads[u].wrote : u \in Reindexing \ {t}}

\* 'cache.clear()' of reindex on thread t.
TaskClear(t) ==
    /\ t \in Reindexing /\ threads[t].pc = "Clearing"
    /\ store' = cache_clear(store)
    /\ lastSet' = [k \in Keys |-> Gone("cleared")]
    /\ last' = Op("clear", "", None, "ok")
    /\ threads' = with_thread(t,
          [threads[t] EXCEPT !.pc = "Warming", !.i = 1,
                             !.clobbered = (written_by_others(t) \cap DOMAIN store) # {}])
    /\ UNCHANGED <<cache_type, now, ticks, counter, addr, keyA, keyB>>
    /\ UNCHANGED <<reachable, db, reindex, pure>>

\* One turn of 'for term in common_terms: self.search(term)' on thread t;
\* after the last term reindex returns and the thread ends.
TaskWarm(t) ==
    /\ t \in Reindexing /\ threads[t].pc = "Warming"
    /\ decorated_function(warm_call(common_terms[threads[t].i]))
    /\ threads' = with_thread(t,
          [threads[t] EXCEPT
              !.i = IF @ < Len(common_terms) THEN @ + 1 ELSE @,
              !.pc = IF threads[t].i < Len(common_terms) THEN "Warming" ELSE "Done",
              !.wrote = IF cache_get(store, warm_key(common_terms[threads[t].i])) = None
                        THEN @ \cup {backend_key(warm_key(common_terms[threads[t].i]))}
                        ELSE @])
    /\ UNCHANGED <<reachable, db, reindex, pure>>

NextTasks ==
    \/ \E t \in ReindexThreads : run_task(t)
    \/ \E t \in ReindexThreads : TaskClear(t)
    \/ \E t \in ReindexThreads : TaskWarm(t)

SpecTasks == Init /\ [][NextTasks]_vars

\* C28: where reindex is triggered through TaskManager, at most one reindex
\* is in its Clearing or Warming phase at any time, and no clear of a reindex
\* has removed entries that the warm-up of another reindex in progress wrote.
C28_ReindexSerialized ==
    /\ Cardinality(Reindexing) <= 1
    /\ \A t \in DOMAIN threads :
          threads[t].task = "update_search_index" => ~threads[t].clobbered

=============================================================================
